---- MODULE Spec2Model ----
(***************************************************************************)
(* Model of the MCNP/T4 geometry comparison oracle:                        *)
(*   oracle.cc          - compare_geoms (the sampling loop) and main       *)
(*   Statistics.cc      - the Statistics class (counters, failures,        *)
(*                        covered ranks, report, writeOutForVisu)          *)
(*   options_compare.cc - OptionsCompare (constructor, get_opts)           *)
(* T4Geometry and MCNPGeometry are not part of the sources at hand: the    *)
(* four T4Geometry calls of the loop are modelled from the specification   *)
(* and the MCNPGeometry/volume queries are inputs.                         *)
(*                                                                         *)
(* Distances are integers, in units of 5.0e-8: the default delta 1.0e-7    *)
(* is 2, the distance 5.0e-8 is 1, and 0 is 0.0.                           *)
(***************************************************************************)
EXTENDS Integers, Sequences, FiniteSets, TLC

\* ---------------------------------------------------------------- bounds
MaxNPS == 4          \* largest number of histories of the INP file
MaxNpts == 2         \* largest value of --npts
MaxDelta == 3        \* largest value of --delta
MaxDist == 3         \* largest distance to the nearest surface
MaxRank == 1         \* ranks of the T4 volumes are 0..MaxRank
MaxCalls == 4        \* counter increments in the Statistics specification
MaxFailures == 2     \* recordFailure calls in the Statistics specification
MaxVolumes == 2      \* largest argument of setNbT4Volumes
MaxArgs == 4         \* largest number of arguments of the command line
MaxOrder == 3        \* points of the PTRAC file that is read in two orders

\* ------------------------------------------------------- program constants
DefaultDelta == 2    \* 1.0E-7
T4GeomDelta == 0     \* the 0.0 of T4Geometry t4Geom(options.filenames[0], 0.0)
NotFound == -1       \* which_volume: the point is in no volume

\* ------------------------------------------------------------ input sets
Keys == {<<1, 1>>, <<2, 1>>}            \* (material, density) of getMaterialDensity
Compos == {"UO2", "H2O"}                \* composition names
Ranks == 0..MaxRank
Dists == 0..MaxDist
Positions == {<<0, 0, 0>>}
PointIDs == {1}
CellIDs == {1}
MaterialIDs == {1}

VARIABLES
  pc,                 \* position of main / of the caller of Statistics
  \* OptionsCompare
  help, verbosity, delta, guessMaterialAssocs, ptracFormat, npoints, filenames,
  args,               \* argv[i..argc-1], the arguments get_opts has not read yet
  \* T4Geometry
  t4Delta,            \* the delta the T4Geometry was constructed with
  compos,             \* composition name of each volume rank
  equivalenceMap,     \* (material, density) -> composition name
  \* MCNPGeometry
  nbSampledPts,       \* local of compare_geoms
  nbRead,             \* points readNextPtracData has delivered
  cur,                \* the point of the current iteration
  nameAsked,          \* <<rank>>: the last rank get_name_from_volume was asked, <<>> before
  \* Statistics
  nbSuccess, nbFailure, nbIgnored, nbOutside, nbT4Volumes, coveredRanks, failures,
  \* output
  report,             \* what report() printed, <<>> before
  visu,               \* what writeOutForVisu() wrote, <<>> before
  \* two runs on two orderings of the same points
  orders              \* the two orderings and, once it has ended, the result of the first run

optVars == <<help, verbosity, delta, guessMaterialAssocs, ptracFormat, npoints, filenames, args>>
geomVars == <<t4Delta, compos, equivalenceMap>>
loopVars == <<nbSampledPts, nbRead, cur, nameAsked>>
counters == <<nbSuccess, nbFailure, nbIgnored, nbOutside>>
statVars == <<nbSuccess, nbFailure, nbIgnored, nbOutside, nbT4Volumes, coveredRanks, failures>>
outVars == <<report, visu>>
vars == <<pc, optVars, geomVars, loopVars, statVars, outVars, orders>>

Min(a, b) == IF a <= b THEN a ELSE b
Max(a, b) == IF a >= b THEN a ELSE b

NoPoint == [key |-> <<0, 0>>, rank |-> 0, dist |-> 0]
NoOrders == [a |-> <<>>, b |-> <<>>, first |-> <<>>]
EmptyMap == [k \in {} |-> "UO2"]

\* ============================================================ Statistics
StatisticsNew ==
  /\ nbSuccess = 0
  /\ nbFailure = 0
  /\ nbIgnored = 0
  /\ nbOutside = 0
  /\ nbT4Volumes = 0
  /\ coveredRanks = {}
  /\ failures = <<>>

\* incrementSuccess counting the point twice.
incrementSuccess_twice ==
  /\ nbSuccess' = nbSuccess + 2
  /\ UNCHANGED <<nbFailure, nbIgnored, nbOutside, nbT4Volumes, coveredRanks, failures>>

incrementSuccess ==
  /\ nbSuccess' = nbSuccess + 1
  /\ UNCHANGED <<nbFailure, nbIgnored, nbOutside, nbT4Volumes, coveredRanks, failures>>

incrementFailure ==
  /\ nbFailure' = nbFailure + 1
  /\ UNCHANGED <<nbSuccess, nbIgnored, nbOutside, nbT4Volumes, coveredRanks, failures>>

\* incrementIgnore bumping the failure counter as well.
incrementIgnore_alsoFailure ==
  /\ nbIgnored' = nbIgnored + 1
  /\ nbFailure' = nbFailure + 1
  /\ UNCHANGED <<nbSuccess, nbOutside, nbT4Volumes, coveredRanks, failures>>

incrementIgnore ==
  /\ nbIgnored' = nbIgnored + 1
  /\ UNCHANGED <<nbSuccess, nbFailure, nbOutside, nbT4Volumes, coveredRanks, failures>>

incrementOutside ==
  /\ nbOutside' = nbOutside + 1
  /\ UNCHANGED <<nbSuccess, nbFailure, nbIgnored, nbT4Volumes, coveredRanks, failures>>

\* getTotalPts leaving the outside points out.
getTotalPts_noOutside == nbSuccess + nbFailure + nbIgnored

getTotalPts == nbSuccess + nbFailure + nbIgnored + nbOutside

\* recordCoveredRank keeping the last rank only.
recordCoveredRank_replace(rank) ==
  /\ coveredRanks' = {rank}
  /\ UNCHANGED <<counters, nbT4Volumes, failures>>

recordCoveredRank(rank) ==
  /\ coveredRanks' = coveredRanks \cup {rank}
  /\ UNCHANGED <<counters, nbT4Volumes, failures>>

setNbT4Volumes(nbVolumes) ==
  /\ nbT4Volumes' = nbVolumes
  /\ UNCHANGED <<counters, coveredRanks, failures>>

failedPoint(position, rank, pointID, cellID, materialID, dist) ==
  [position |-> position, pointID |-> pointID, cellID |-> cellID,
   materialID |-> materialID, dist |-> dist, rank |-> rank]

recordFailure(position, rank, pointID, cellID, materialID, dist) ==
  /\ failures' = Append(failures, failedPoint(position, rank, pointID, cellID, materialID, dist))
  /\ UNCHANGED <<counters, nbT4Volumes, coveredRanks>>

\* Quotient of doubles, kept exact: num/den. 0.0/0 is NaN.
Quotient(num, den) == [num |-> num, den |-> den]
IsNaN(q) == q.num = 0 /\ q.den = 0

RECURSIVE SumDist(_)
SumDist(fs) == IF fs = <<>> THEN 0 ELSE fs[1].dist + SumDist(Tail(fs))

RECURSIVE MaxDistOf(_)
MaxDistOf(fs) == IF fs = <<>> THEN 0 ELSE Max(MaxDistOf(Tail(fs)), fs[1].dist)

\* 100. * float(data) / float(total)
reportOn(data, total) == Quotient(100 * data, total)

\* What report() prints.
reportText ==
  [totalPt |-> getTotalPts,
   successful |-> reportOn(nbSuccess, getTotalPts),
   failed |-> reportOn(nbFailure, getTotalPts),
   ignored |-> reportOn(nbIgnored, getTotalPts),
   outside |-> reportOn(nbOutside, getTotalPts),
   covered |-> Cardinality(coveredRanks),
   input |-> nbT4Volumes,
   averageDist |-> Quotient(SumDist(failures), Len(failures)),
   maxDist |-> MaxDistOf(failures)]

Statistics_report ==
  /\ report' = <<reportText>>
  /\ UNCHANGED <<statVars, visu>>

\* File names are sequences of characters.
OutputViz == <<"o", "u", "t", "p", "u", "t", "V", "i", "z", ".", "t", "x", "t">>
Npos == 0            \* std::string::npos: the character does not occur

RECURSIVE find_last_of(_, _)
find_last_of(str, ch) ==
  IF str = <<>> THEN Npos
  ELSE IF str[Len(str)] = ch THEN Len(str)
       ELSE find_last_of(SubSeq(str, 1, Len(str) - 1), ch)

\* Positions are 1-based here: substr(0, lastindex) is the lastindex - 1 first
\* characters, substr(lastindex + 1, npos) what follows position lastindex.
getRawFileName(fname) ==
  LET dot == find_last_of(fname, ".")
      rawname == IF dot = Npos THEN fname ELSE SubSeq(fname, 1, dot - 1)
      slash == find_last_of(fname, "/")
  IN IF slash # Npos THEN SubSeq(rawname, slash + 1, Len(rawname)) ELSE rawname

writePointsFile(rawname) ==
  [file |-> rawname \o <<".", "points">>, name |-> rawname \o <<".", "failedpoints", ".", "general">>]

\* failures[iFail] for iFail past the end of the vector reads memory that is
\* not an element: the row stored is whatever is there.
GarbageRows ==
  {failedPoint(<<0, 0, 0>>, 0, 0, 0, 0, 0), failedPoint(<<0, 0, 0>>, NotFound, 1, 1, 1, 1)}

\* The rows t4_store.store() receives, one per iFail in 0..nbFailure-1.
StoredRows ==
  {SubSeq(failures, 1, Min(nbFailure, Len(failures))) \o g :
     g \in [1..(nbFailure - Len(failures)) -> GarbageRows]}

\* writeOutForVisu completes with the rows stored, or the read past the end
\* of failures faults before anything is written.
writeOutForVisu(fname, rows, faults) ==
  /\ rows \in StoredRows
  /\ faults => nbFailure > Len(failures)
  /\ visu' = IF faults THEN <<>>
             ELSE <<[dat |-> getRawFileName(fname) \o <<".", "failedpoints", ".", "dat">>,
                     header |-> TRUE,
                     rows |-> rows,
                     points |-> writePointsFile(getRawFileName(fname))]>>
  /\ UNCHANGED <<statVars, report>>

\* ============================================================ T4Geometry
materialInMap(key) == key \in DOMAIN equivalenceMap

addEquivalence(key, compo) ==
  [k \in DOMAIN equivalenceMap \cup {key} |-> IF k = key THEN compo ELSE equivalenceMap[k]]

weakEquivalence(key, compo) == equivalenceMap[key] = compo

isPointNearSurface(dist) == dist <= t4Delta

\* ======================================================== compare_geoms
which_volume(point) == point.rank

get_name_from_volume(rank) == IF rank \in DOMAIN compos THEN compos[rank] ELSE "?"

\* The loop with the addEquivalence call left out.
classifyPoint_noInsert(key, compo, dist) ==
  IF ~materialInMap(key)
  THEN [map |-> equivalenceMap, outcome |-> "Success"]
  ELSE IF weakEquivalence(key, compo)
       THEN [map |-> equivalenceMap, outcome |-> "Success"]
       ELSE IF isPointNearSurface(dist)
            THEN [map |-> equivalenceMap, outcome |-> "Ignored"]
            ELSE [map |-> equivalenceMap, outcome |-> "Failure"]

\* The loop with addEquivalence called again on a mismatch.
classifyPoint_overwrite(key, compo, dist) ==
  IF ~materialInMap(key)
  THEN [map |-> addEquivalence(key, compo), outcome |-> "Success"]
  ELSE IF weakEquivalence(key, compo)
       THEN [map |-> equivalenceMap, outcome |-> "Success"]
       ELSE IF isPointNearSurface(dist)
            THEN [map |-> addEquivalence(key, compo), outcome |-> "Ignored"]
            ELSE [map |-> addEquivalence(key, compo), outcome |-> "Failure"]

\* The loop with the test of isPointNearSurface negated.
classifyPoint_swapped(key, compo, dist) ==
  IF ~materialInMap(key)
  THEN [map |-> addEquivalence(key, compo), outcome |-> "Success"]
  ELSE IF weakEquivalence(key, compo)
       THEN [map |-> equivalenceMap, outcome |-> "Success"]
       ELSE IF ~isPointNearSurface(dist)
            THEN [map |-> equivalenceMap, outcome |-> "Ignored"]
            ELSE [map |-> equivalenceMap, outcome |-> "Failure"]

\* Lines 63-79: the new map and the Statistics call made for one point.
classifyPoint(key, compo, dist) ==
  IF ~materialInMap(key)
  THEN [map |-> addEquivalence(key, compo), outcome |-> "Success"]
  ELSE IF weakEquivalence(key, compo)
       THEN [map |-> equivalenceMap, outcome |-> "Success"]
       ELSE IF isPointNearSurface(dist)
            THEN [map |-> equivalenceMap, outcome |-> "Ignored"]
            ELSE [map |-> equivalenceMap, outcome |-> "Failure"]

Points == [key : Keys, rank : {NotFound} \cup Ranks, dist : Dists]

\* Lines 36-47: the geometries and the Statistics are constructed, the INP
\* file gives the number of histories. An npoints that was never set (0)
\* leaves the number of histories as the budget.
compare_geoms_begin ==
  /\ pc = "compare_geoms"
  /\ t4Delta' = T4GeomDelta
  /\ equivalenceMap' = EmptyMap
  /\ \E nps \in 0..MaxNPS :
       nbSampledPts' = IF npoints = 0 THEN nps ELSE Min(npoints, nps)
  /\ nbRead' = 0
  /\ pc' = "loop"
  /\ UNCHANGED <<optVars, compos, cur, nameAsked, statVars, outVars, orders>>

\* Line 49: readNextPtracData delivers the next point of the PTRAC file ...
readNextPtracData ==
  /\ pc = "loop"
  /\ nbRead < nbSampledPts
  /\ \E p \in Points : cur' = p
  /\ nbRead' = nbRead + 1
  /\ pc' = "body"
  /\ UNCHANGED <<optVars, geomVars, nbSampledPts, nameAsked, statVars, outVars, orders>>

\* ... or returns false: nbSampledPts points were read, or the file has no more.
readNextPtracDataEnd ==
  /\ pc = "loop"
  /\ pc' = "report"
  /\ UNCHANGED <<optVars, geomVars, loopVars, statVars, outVars, orders>>

\* Lines 53-61, the point is in no volume: exit(EXIT_FAILURE). The name of
\* the composition has been asked for (line 55) before the rank is tested;
\* no Statistics method is called.
bodyOutside ==
  /\ pc = "body"
  /\ which_volume(cur) < 0
  /\ nameAsked' = <<which_volume(cur)>>
  /\ pc' = "exit_failure"
  /\ UNCHANGED <<optVars, geomVars, nbSampledPts, nbRead, cur, statVars, outVars, orders>>

\* The loop left at the first failure.
bodyClassify_stopOnFailure ==
  /\ pc = "body"
  /\ which_volume(cur) >= 0
  /\ LET rank == which_volume(cur)
         compo == get_name_from_volume(rank)
         r == classifyPoint(cur.key, compo, cur.dist)
     IN /\ equivalenceMap' = r.map
        /\ CASE r.outcome = "Success" -> incrementSuccess
             [] r.outcome = "Ignored" -> incrementIgnore
             [] r.outcome = "Failure" -> incrementFailure
  /\ nameAsked' = <<which_volume(cur)>>
  /\ pc' = IF classifyPoint(cur.key, get_name_from_volume(which_volume(cur)), cur.dist).outcome = "Failure"
            THEN "report" ELSE "loop"
  /\ UNCHANGED <<optVars, t4Delta, compos, nbSampledPts, nbRead, cur, outVars, orders>>

\* Lines 53-79, the point is in a volume.
bodyClassify ==
  /\ pc = "body"
  /\ which_volume(cur) >= 0
  /\ LET rank == which_volume(cur)
         compo == get_name_from_volume(rank)
         r == classifyPoint(cur.key, compo, cur.dist)
     IN /\ equivalenceMap' = r.map
        /\ CASE r.outcome = "Success" -> incrementSuccess
             [] r.outcome = "Ignored" -> incrementIgnore
             [] r.outcome = "Failure" -> incrementFailure
  /\ nameAsked' = <<which_volume(cur)>>
  /\ pc' = "loop"
  /\ UNCHANGED <<optVars, t4Delta, compos, nbSampledPts, nbRead, cur, outVars, orders>>

\* main, line 101
main_report ==
  /\ pc = "report"
  /\ Statistics_report
  /\ pc' = "visu"
  /\ UNCHANGED <<optVars, geomVars, loopVars, orders>>

\* main, lines 102-103
main_writeOutForVisu ==
  /\ pc = "visu"
  /\ \E faults \in BOOLEAN : \E rows \in StoredRows :
       /\ writeOutForVisu(OutputViz, rows, faults)
       /\ pc' = IF faults THEN "fault" ELSE "done"
  /\ UNCHANGED <<optVars, geomVars, loopVars, orders>>

\* The options get_opts leaves when it returns without help.
Init ==
  /\ pc = "compare_geoms"
  /\ help = FALSE
  /\ verbosity = 0
  /\ delta \in {DefaultDelta, MaxDelta}
  /\ guessMaterialAssocs = FALSE
  /\ ptracFormat = "BINARY"
  /\ npoints \in {0, MaxNpts}
  /\ filenames = <<"jdd.t4", "jdd.inp", "ptrac">>
  /\ args = <<>>
  /\ t4Delta = 0
  /\ compos \in [Ranks -> Compos]
  /\ equivalenceMap = EmptyMap
  /\ nbSampledPts = 0
  /\ nbRead = 0
  /\ cur = NoPoint
  /\ nameAsked = <<>>
  /\ orders = NoOrders
  /\ StatisticsNew
  /\ report = <<>>
  /\ visu = <<>>

Next ==
  \/ compare_geoms_begin
  \/ readNextPtracData
  \/ readNextPtracDataEnd
  \/ bodyOutside
  \/ bodyClassify
  \/ main_report
  \/ main_writeOutForVisu

Spec == Init /\ [][Next]_vars

\* ========================================== compare_geoms, two orderings
\* compare_geoms run twice on the same volumes, the second time on a PTRAC
\* file that holds the points of the first in another order. All the points
\* are in a volume; the budget is the length of the file.
OrderPoints == [key : Keys, rank : {0, MaxRank}, dist : {0, MaxDist}]

Orderings(n) == {f \in [1..n -> 1..n] : \A i, j \in 1..n : f[i] = f[j] => i = j}

Reordered(s, f) == [i \in 1..Len(s) |-> s[f[i]]]

Tape == IF orders.first = <<>> THEN orders.a ELSE orders.b

RunResult == [counters |-> counters, map |-> equivalenceMap]

InitOrder ==
  /\ pc = "compare_geoms"
  /\ help = FALSE
  /\ verbosity = 0
  /\ delta = DefaultDelta
  /\ guessMaterialAssocs = FALSE
  /\ ptracFormat = "BINARY"
  /\ npoints = 0
  /\ filenames = <<"jdd.t4", "jdd.inp", "ptrac">>
  /\ args = <<>>
  /\ t4Delta = 0
  /\ compos = [r \in Ranks |-> IF r = 0 THEN "UO2" ELSE "H2O"]
  /\ equivalenceMap = EmptyMap
  /\ nbSampledPts = 0
  /\ nbRead = 0
  /\ cur = NoPoint
  /\ nameAsked = <<>>
  /\ \E sa \in [1..MaxOrder -> OrderPoints] : \E f \in Orderings(MaxOrder) :
       orders = [a |-> sa, b |-> Reordered(sa, f), first |-> <<>>]
  /\ StatisticsNew
  /\ report = <<>>
  /\ visu = <<>>

\* Lines 36-47, the INP file gives as many histories as the PTRAC file has points.
order_begin ==
  /\ compare_geoms_begin
  /\ nbSampledPts' = Len(Tape)

\* Line 49, the next point of the file.
order_read ==
  /\ readNextPtracData
  /\ cur' = Tape[nbRead + 1]

\* Line 49, the budget is reached.
order_end ==
  /\ nbRead = nbSampledPts
  /\ readNextPtracDataEnd

\* The first run has ended: its counters and its map are kept, and the
\* program is started again (a new Statistics, line 38) on the second file.
order_second ==
  /\ pc = "report"
  /\ orders.first = <<>>
  /\ orders' = [orders EXCEPT !.first = <<RunResult>>]
  /\ nbSuccess' = 0
  /\ nbFailure' = 0
  /\ nbIgnored' = 0
  /\ nbOutside' = 0
  /\ nbT4Volumes' = 0
  /\ coveredRanks' = {}
  /\ failures' = <<>>
  /\ cur' = NoPoint
  /\ nameAsked' = <<>>
  /\ pc' = "compare_geoms"
  /\ UNCHANGED <<optVars, geomVars, nbSampledPts, nbRead, outVars>>

NextOrder ==
  \/ order_begin
  \/ order_read
  \/ order_end
  \/ bodyClassify
  \/ order_second

SpecOrder == InitOrder /\ [][NextOrder]_vars

\* ================================================== Statistics, any caller
\* A Statistics object under any sequence of calls of its public methods.
FailDists == {-1, MaxDist}
FailRanks == {0, MaxRank}

InitStats ==
  /\ pc = "stats"
  /\ help = FALSE
  /\ verbosity = 0
  /\ delta = DefaultDelta
  /\ guessMaterialAssocs = FALSE
  /\ ptracFormat = "BINARY"
  /\ npoints = 0
  /\ filenames = <<>>
  /\ args = <<>>
  /\ t4Delta = 0
  /\ compos = [r \in Ranks |-> "UO2"]
  /\ equivalenceMap = EmptyMap
  /\ nbSampledPts = 0
  /\ nbRead = 0
  /\ cur = NoPoint
  /\ nameAsked = <<>>
  /\ orders = NoOrders
  /\ StatisticsNew
  /\ report = <<>>
  /\ visu = <<>>

notStats == <<optVars, geomVars, loopVars, orders>>

call_incrementSuccess ==
  /\ pc = "stats" /\ getTotalPts < MaxCalls
  /\ incrementSuccess
  /\ UNCHANGED <<pc, notStats, outVars>>

call_incrementFailure ==
  /\ pc = "stats" /\ getTotalPts < MaxCalls
  /\ incrementFailure
  /\ UNCHANGED <<pc, notStats, outVars>>

call_incrementIgnore ==
  /\ pc = "stats" /\ getTotalPts < MaxCalls
  /\ incrementIgnore
  /\ UNCHANGED <<pc, notStats, outVars>>

call_incrementOutside ==
  /\ pc = "stats" /\ getTotalPts < MaxCalls
  /\ incrementOutside
  /\ UNCHANGED <<pc, notStats, outVars>>

call_recordCoveredRank ==
  /\ pc = "stats"
  /\ \E rank \in Ranks : recordCoveredRank(rank)
  /\ UNCHANGED <<pc, notStats, outVars>>

call_setNbT4Volumes ==
  /\ pc = "stats"
  /\ \E nbVolumes \in 0..MaxVolumes : setNbT4Volumes(nbVolumes)
  /\ UNCHANGED <<pc, notStats, outVars>>

call_recordFailure ==
  /\ pc = "stats" /\ Len(failures) < MaxFailures
  /\ \E position \in Positions, rank \in FailRanks, pointID \in PointIDs,
        cellID \in CellIDs, materialID \in MaterialIDs, dist \in FailDists :
       recordFailure(position, rank, pointID, cellID, materialID, dist)
  /\ UNCHANGED <<pc, notStats, outVars>>

call_report ==
  /\ pc = "stats"
  /\ Statistics_report
  /\ pc' = "stats_reported"
  /\ UNCHANGED notStats

call_writeOutForVisu ==
  /\ pc = "stats_reported"
  /\ \E faults \in BOOLEAN : \E rows \in StoredRows :
       /\ writeOutForVisu(OutputViz, rows, faults)
       /\ pc' = IF faults THEN "fault" ELSE "done"
  /\ UNCHANGED notStats

NextStats ==
  \/ call_incrementSuccess
  \/ call_incrementFailure
  \/ call_incrementIgnore
  \/ call_incrementOutside
  \/ call_recordCoveredRank
  \/ call_setNbT4Volumes
  \/ call_recordFailure
  \/ call_report
  \/ call_writeOutForVisu

SpecStats == InitStats /\ [][NextStats]_vars

\* ======================================================== OptionsCompare
\* The command line: argv[1..argc-1], each argument one of Tokens.
Tokens == {"-h", "-V", "-g", "-n", "-d", "--ascii", "-1", "0", "3", "jdd.t4", "jdd.inp", "ptrac"}

\* The number an argument reads as; an argument that is no number reads as 0.
NumVal(arg) == CASE arg = "3" -> 3 [] arg = "-1" -> -1 [] OTHER -> 0

\* The constructor: npoints is unset (0), filenames is empty.
OptionsCompareNew ==
  /\ help = FALSE
  /\ verbosity = 0
  /\ delta = DefaultDelta
  /\ guessMaterialAssocs = FALSE
  /\ ptracFormat = "BINARY"
  /\ npoints = 0
  /\ filenames = <<>>

InitOpts ==
  /\ pc = "get_opts"
  /\ OptionsCompareNew
  /\ args \in UNION {[1..n -> Tokens] : n \in 0..MaxArgs}
  /\ t4Delta = 0
  /\ compos = [r \in Ranks |-> "UO2"]
  /\ equivalenceMap = EmptyMap
  /\ nbSampledPts = 0
  /\ nbRead = 0
  /\ cur = NoPoint
  /\ nameAsked = <<>>
  /\ orders = NoOrders
  /\ StatisticsNew
  /\ report = <<>>
  /\ visu = <<>>

notOpts == <<geomVars, loopVars, statVars, outVars, orders>>

\* Lines 56-59: argc <= 3 asks for the help.
get_opts_begin ==
  /\ pc = "get_opts"
  /\ IF Len(args) + 1 <= 3
     THEN help' = TRUE /\ pc' = "main"
     ELSE help' = help /\ pc' = "get_opts_loop"
  /\ UNCHANGED <<verbosity, delta, guessMaterialAssocs, ptracFormat, npoints, filenames, args, notOpts>>

\* The loop taking any --npts value and testing delta < 0 instead of delta <= 0.
get_opts_arg_unchecked ==
  /\ pc = "get_opts_loop"
  /\ args # <<>>
  /\ LET opt == Head(args)
         takesValue == opt \in {"-n", "-d"}
         missing == takesValue /\ Len(args) < 2          \* check_argv
         nv == IF takesValue THEN 1 ELSE 0
     IN /\ help' = (help \/ opt = "-h")
        /\ verbosity' = IF opt = "-V" THEN verbosity + 1 ELSE verbosity
        /\ guessMaterialAssocs' = (guessMaterialAssocs \/ opt = "-g")
        /\ ptracFormat' = IF opt = "--ascii" THEN "ASCII"
                          ELSE IF opt = "--binary" THEN "BINARY" ELSE ptracFormat
        /\ npoints' = IF opt = "-n" /\ ~missing
                      THEN NumVal(args[2]) ELSE npoints
        /\ delta' = IF opt = "-d" /\ ~missing
                    THEN (IF NumVal(args[2]) < 0 THEN DefaultDelta ELSE NumVal(args[2]))
                    ELSE delta
        /\ filenames' = IF opt \in {"-h", "-V", "-g", "-n", "-d", "--binary", "--ascii"}
                        THEN filenames ELSE Append(filenames, opt)
        /\ args' = IF opt = "-h" \/ missing THEN args ELSE SubSeq(args, 2 + nv, Len(args))
        /\ pc' = IF opt = "-h" THEN "main"
                 ELSE IF missing THEN "exit_failure" ELSE "get_opts_loop"
  /\ UNCHANGED notOpts

\* Lines 61-98: one iteration of the loop over the arguments.
get_opts_arg ==
  /\ pc = "get_opts_loop"
  /\ args # <<>>
  /\ LET opt == Head(args)
         takesValue == opt \in {"-n", "-d"}
         missing == takesValue /\ Len(args) < 2          \* check_argv
         nv == IF takesValue THEN 1 ELSE 0
     IN /\ help' = (help \/ opt = "-h")
        /\ verbosity' = IF opt = "-V" THEN verbosity + 1 ELSE verbosity
        /\ guessMaterialAssocs' = (guessMaterialAssocs \/ opt = "-g")
        /\ ptracFormat' = IF opt = "--ascii" THEN "ASCII"
                          ELSE IF opt = "--binary" THEN "BINARY" ELSE ptracFormat
        /\ npoints' = IF opt = "-n" /\ ~missing /\ NumVal(args[2]) > 0
                      THEN NumVal(args[2]) ELSE npoints
        /\ delta' = IF opt = "-d" /\ ~missing
                    THEN (IF NumVal(args[2]) <= 0 THEN DefaultDelta ELSE NumVal(args[2]))
                    ELSE delta
        /\ filenames' = IF opt \in {"-h", "-V", "-g", "-n", "-d", "--binary", "--ascii"}
                        THEN filenames ELSE Append(filenames, opt)
        /\ args' = IF opt = "-h" \/ missing THEN args ELSE SubSeq(args, 2 + nv, Len(args))
        /\ pc' = IF opt = "-h" THEN "main"
                 ELSE IF missing THEN "exit_failure" ELSE "get_opts_loop"
  /\ UNCHANGED notOpts

\* Lines 102-110: every file name is readable ...
get_opts_files ==
  /\ pc = "get_opts_loop"
  /\ args = <<>>
  /\ pc' = "main"
  /\ UNCHANGED <<optVars, notOpts>>

\* ... or one is not: exit(EXIT_FAILURE).
get_opts_unreachable_file ==
  /\ pc = "get_opts_loop"
  /\ args = <<>>
  /\ filenames # <<>>
  /\ pc' = "exit_failure"
  /\ UNCHANGED <<optVars, notOpts>>

\* main, lines 95-100
main_options ==
  /\ pc = "main"
  /\ pc' = IF help THEN "exit_success" ELSE "compare_geoms"
  /\ UNCHANGED <<optVars, notOpts>>

NextOpts ==
  \/ get_opts_begin
  \/ get_opts_arg
  \/ get_opts_files
  \/ get_opts_unreachable_file
  \/ main_options

SpecOpts == InitOpts /\ [][NextOpts]_vars

\* ============================================================ properties
\* The point of the current iteration, as the loop body sees it.
InBounds == pc = "body" /\ cur.rank >= 0
curCompo == compos[cur.rank]
Mapped == cur.key \in DOMAIN equivalenceMap
OnlyCounter(c) ==
  /\ nbSuccess' = nbSuccess + (IF c = "Success" THEN 1 ELSE 0)
  /\ nbFailure' = nbFailure + (IF c = "Failure" THEN 1 ELSE 0)
  /\ nbIgnored' = nbIgnored + (IF c = "Ignored" THEN 1 ELSE 0)
  /\ nbOutside' = nbOutside + (IF c = "Outside" THEN 1 ELSE 0)

\* C1: a point inside the target geometry is classified by the reference
\* rule. Key not in the map: key -> composition is inserted, Success. Key
\* mapped to the same composition: Success, map unchanged. Key mapped to
\* another composition: Ignored if the distance is at most the tolerance of
\* the geometry, Failure otherwise, map unchanged.
C1_ReferenceRule ==
  [][InBounds =>
       IF ~Mapped
       THEN /\ DOMAIN equivalenceMap' = DOMAIN equivalenceMap \cup {cur.key}
            /\ equivalenceMap'[cur.key] = curCompo
            /\ \A k \in DOMAIN equivalenceMap : equivalenceMap'[k] = equivalenceMap[k]
            /\ OnlyCounter("Success")
       ELSE /\ equivalenceMap' = equivalenceMap
            /\ IF equivalenceMap[cur.key] = curCompo THEN OnlyCounter("Success")
               ELSE IF cur.dist <= t4Delta THEN OnlyCounter("Ignored")
               ELSE OnlyCounter("Failure")]_vars

C1_Witness ==
  /\ pc = "loop"
  /\ Cardinality(DOMAIN equivalenceMap) = 2
  /\ nbIgnored >= 1
  /\ nbFailure >= 1

\* C2: the keys of the EquivalenceMap only grow, by one key at a time, and
\* the composition stored for a key is never changed afterwards.
C2_WriteOnce ==
  [][/\ DOMAIN equivalenceMap \subseteq DOMAIN equivalenceMap'
     /\ Cardinality(DOMAIN equivalenceMap') <= Cardinality(DOMAIN equivalenceMap) + 1
     /\ \A k \in DOMAIN equivalenceMap : equivalenceMap'[k] = equivalenceMap[k]]_vars

C2_Witness ==
  /\ pc = "loop"
  /\ DOMAIN equivalenceMap # {}
  /\ nbIgnored + nbFailure >= 2

\* C5: on a mismatch, a distance equal to the tolerance of the geometry gives
\* Ignored and a distance greater than it gives Failure.
C5_BoundaryInclusive ==
  [][(InBounds /\ Mapped /\ equivalenceMap[cur.key] # curCompo) =>
       /\ cur.dist = t4Delta => (nbIgnored' = nbIgnored + 1 /\ nbFailure' = nbFailure)
       /\ cur.dist > t4Delta => (nbFailure' = nbFailure + 1 /\ nbIgnored' = nbIgnored)]_vars

C5_Witness ==
  /\ pc = "loop"
  /\ nbSuccess = 1
  /\ nbIgnored = 1
  /\ nbFailure = 1

\* C3: the four counters of a new Statistics are 0, getTotalPts() is their
\* sum after any sequence of calls, and no call makes a counter smaller.
C3_CounterConsistency ==
  /\ nbSuccess = 0 /\ nbFailure = 0 /\ nbIgnored = 0 /\ nbOutside = 0
  /\ [](getTotalPts = nbSuccess + nbFailure + nbIgnored + nbOutside)
  /\ [][/\ nbSuccess' >= nbSuccess
        /\ nbFailure' >= nbFailure
        /\ nbIgnored' >= nbIgnored
        /\ nbOutside' >= nbOutside]_vars

C3_Witness ==
  /\ getTotalPts = MaxCalls
  /\ nbOutside >= 1
  /\ nbSuccess >= 1
  /\ coveredRanks # {}
  /\ failures # <<>>

\* C4: when the run has ended on a point that is in no volume, that point has
\* been counted as outside.
C4_OutsideCounted == pc = "exit_failure" => nbOutside = 1

\* C6: on a mismatch the point is Ignored exactly when its distance is at
\* most the configured delta of the options.
C6_ConfiguredTolerance ==
  [][(InBounds /\ Mapped /\ equivalenceMap[cur.key] # curCompo) =>
       (nbIgnored' = nbIgnored + 1 <=> cur.dist <= delta)]_vars

\* C7 as stated: a call that records an outcome adds one to exactly one
\* counter and leaves the covered ranks and the number of volumes alone; it
\* appends one failed point when the counter is the failure counter, and
\* leaves the failures alone otherwise.
RecordsOutcome == counters' # counters \/ failures' # failures
OneCounterStep ==
  \E c \in {"Success", "Failure", "Ignored", "Outside"} : OnlyCounter(c)
OneAppended ==
  /\ Len(failures') = Len(failures) + 1
  /\ SubSeq(failures', 1, Len(failures)) = failures

C7_RecordOperations ==
  [][RecordsOutcome =>
       /\ OneCounterStep
       /\ UNCHANGED <<coveredRanks, nbT4Volumes>>
       /\ IF nbFailure' = nbFailure + 1 THEN OneAppended ELSE failures' = failures]_vars

\* C7 amended: a call that changes a counter adds one to exactly one counter
\* and leaves the failures, the covered ranks and the number of volumes
\* alone; a call that changes the failures appends one failed point and
\* leaves the counters, the covered ranks and the number of volumes alone.
C7_IncrementOrRecord ==
  [][/\ counters' # counters =>
          /\ OneCounterStep
          /\ UNCHANGED <<coveredRanks, nbT4Volumes, failures>>
     /\ failures' # failures =>
          /\ OneAppended
          /\ UNCHANGED <<counters, coveredRanks, nbT4Volumes>>]_vars

C7_Witness ==
  /\ nbSuccess = 1 /\ nbFailure = 1 /\ nbIgnored = 1 /\ nbOutside = 1
  /\ Len(failures) = 1

\* C8: a report on no failed point has divided by no zero.
C8_NoDivisionByZero ==
  (report # <<>> /\ failures = <<>>) => report[1].averageDist.den # 0

\* C9: the export has written one row per failed point, in their order, a
\* header and the file that names the table.
C9_OneRowPerFailedPoint ==
  pc \in {"done", "fault"} =>
    /\ visu # <<>>
    /\ visu[1].rows = failures
    /\ visu[1].header
    /\ visu[1].points.name = getRawFileName(OutputViz) \o <<".", "failedpoints", ".", "general">>

C11_VisitedCovered ==
  [][InBounds => (cur.rank \in coveredRanks' /\ coveredRanks' \subseteq coveredRanks \cup {cur.rank})]_vars

\* C12: no failed point is stored with a negative distance to the surface:
\* recordFailure rejects it and leaves the failures as they were.
C12_NegativeDistanceRejected ==
  \A i \in 1..Len(failures) : failures[i].dist >= 0

\* C14: when k points in a volume have been through the loop body, the total
\* of the counters is k.
Classified == IF pc = "body" \/ pc = "exit_failure" THEN nbRead - 1 ELSE nbRead
C14_OneCallPerPoint == pc # "compare_geoms" => getTotalPts = Classified

C14_Witness ==
  /\ pc = "report"
  /\ nbRead = 3
  /\ nbSuccess = 2
  /\ nbFailure = 1

\* C16: the outcome depends on the order of the points. Two runs on two
\* orderings of the same points count the same number of points; when their
\* success/failure/ignored counters differ, the maps they end with differ,
\* that is, some key first met another composition.
C16_OrderSensitive ==
  (pc = "report" /\ orders.first # <<>>) =>
     /\ getTotalPts = Len(orders.b)
     /\ counters # orders.first[1].counters => equivalenceMap # orders.first[1].map

\* <<p, p, q>> and <<q, p, p>>: two successes and a failure, one success and two failures.
C16_Witness ==
  /\ pc = "report" /\ orders.first # <<>>
  /\ orders.first[1].counters = <<2, 1, 0, 0>>
  /\ counters = <<1, 2, 0, 0>>

\* C18: when writeOutForVisu is about to run, the failure counter is the
\* number of failed points stored.
C18_CounterMatchesFailures == pc = "visu" => nbFailure = Len(failures)

\* C20: compare_geoms is entered with three file names at least.
C20_ThreeFilenames == pc = "compare_geoms" => Len(filenames) >= 3

\* C17: once get_opts has returned without help, delta is positive and
\* npoints is unset (0) or positive; in the loop, a --delta value <= 0 leaves
\* delta at 1.0e-7 and a --npts value <= 0 leaves npoints as it was.
ValueOf(opt) ==
  pc = "get_opts_loop" /\ Len(args) >= 2 /\ args[1] = opt
C17_OptionsPositive ==
  /\ []((pc \in {"main", "compare_geoms"} /\ ~help) => (delta > 0 /\ npoints >= 0))
  /\ [][/\ (ValueOf("-d") /\ NumVal(args[2]) <= 0) => delta' = DefaultDelta
        /\ (ValueOf("-d") /\ NumVal(args[2]) > 0) => delta' = NumVal(args[2])
        /\ (ValueOf("-n") /\ NumVal(args[2]) <= 0) => npoints' = npoints
        /\ (ValueOf("-n") /\ NumVal(args[2]) > 0) => npoints' = NumVal(args[2])]_vars

\* --delta 3 has been read and --delta with a value <= 0 comes next.
C17_Witness ==
  /\ ValueOf("-d")
  /\ NumVal(args[2]) <= 0
  /\ delta = 3

\* C19: get_name_from_volume is asked for ranks >= 0 only.
C19_NameAskedInVolume == nameAsked # <<>> => nameAsked[1] >= 0

\* C15: a classified point sends the loop back to the next read; the loop is
\* left only by readNextPtracData returning false or by a point in no volume;
\* the report is printed after the loop and before the export; a run stops
\* only on a point in no volume or after the report has been printed.
C15_LoopRunsOn ==
  /\ [](pc \in {"visu", "done", "fault"} => report # <<>>)
  /\ [](InBounds => ENABLED bodyClassify)
  /\ [](pc = "loop" => ENABLED (readNextPtracData \/ readNextPtracDataEnd))
  /\ [](pc = "report" => ENABLED main_report)
  /\ [][/\ InBounds => pc' = "loop"
        /\ pc' = "report" => pc = "loop"
        /\ pc' = "exit_failure" => (pc = "body" /\ cur.rank < 0)
        /\ report' # report => (pc = "report" /\ visu = <<>> /\ pc' = "visu")
        /\ visu' # visu => report # <<>>]_vars

C15_Witness ==
  /\ pc = "visu"
  /\ report # <<>>
  /\ nbFailure >= 1
  /\ nbIgnored >= 1
  /\ nbRead = MaxNPS

====
